---- MODULE Spec2Model ----
(***************************************************************************)
(* The OTP lifecycle of the Fast2SMS / Twilio OTP server: /send-otp,       *)
(* /verify-otp and /reset-password over the Firestore collection           *)
(* otp_requests and the Firebase identity store.                           *)
(*                                                                         *)
(* Every handler is an async function: the code between two awaits runs    *)
(* atomically, and at every await other requests, and the clock, may move. *)
(* Each handler is therefore one action per await-delimited step.          *)
(***************************************************************************)
EXTENDS Integers, Sequences, FiniteSets, Bags, TLC

VARIABLES
    store,   \* otp_requests: cleaned phone -> document, or NoRec
    users,   \* identity store: cleaned phone (its derived email) -> password, or NoUser
    now,     \* Date.now(), in milliseconds
    req,     \* the bag of requests in flight (handler invocations are anonymous)
    mode,    \* "concurrent": any clients, requests overlap freely;
             \* "paired": one client, whose every request goes to both
             \* servers, and log holds the last response only;
             \* "several": clients with several phone numbers, whose
             \* requests arrive one after the other;
             \* "sequential": one client, with one phone number, that waits
             \* for each response before it sends the next request
    log,     \* the session of the sequential client: its answered requests,
             \* oldest first
    begun,   \* the number of requests received so far
    twilio   \* the Twilio server (the second source file) run side by side
             \* on the same requests: its otp_requests and identity store, the
             \* request its handler is working on, and its last response

vars == <<store, users, now, req, mode, log, begun, twilio>>

\* ------------------------------------------------------------------ bounds

\* handler invocations that can be in flight at once
NumProcs == 2
\* requests received in one behaviour
MaxReqs == 3
\* how many times the clock advances
MaxTicks == 2

\* ------------------------------------------------------------------ config

OTP_EXPIRY_MS == 5 * 60 * 1000

\* the clock advances one validity window at a time: a record written at t is
\* read at t (fresh), at t + OTP_EXPIRY_MS (the boundary) and later (expired)
TickMs == OTP_EXPIRY_MS

\* ------------------------------------------------------------------ inputs

\* a field absent from the request body: undefined, null and "" are all falsy
Missing == ""
\* the same for the phone, a sequence of characters here
NoPhone == <<>>

\* phone strings as clients send them, as sequences of characters
RawPhones ==
    { <<"+","9","1"," ","9","8","7","6","5","-","4","3","2","1","0">>,
      <<"9","8","7","6","5","4","3","2","1","0">>,
      <<"0","9","1","2","3","4","5","6","7","8","0">> }

Digits == {"0","1","2","3","4","5","6","7","8","9"}

\* s.slice(-n)
SliceLast(s, n) ==
    IF Len(s) <= n THEN s ELSE SubSeq(s, Len(s) - n + 1, Len(s))

\* a normalisation that keeps the first ten digits: .slice(0, 10)
CleanPhoneFirstTen(phone) ==
    LET ds == SelectSeq(phone, LAMBDA ch : ch \in Digits)
    IN  IF Len(ds) <= 10 THEN ds ELSE SubSeq(ds, 1, 10)

\* phone.replace(/\D/g, "").slice(-10)
CleanPhone(phone) ==
    SliceLast(SelectSeq(phone, LAMBDA ch : ch \in Digits), 10)

Keys == { CleanPhone(ph) : ph \in RawPhones }

\* the sequential client's number, in the two formats it may type it
ClientPhones ==
    { <<"+","9","1"," ","9","8","7","6","5","-","4","3","2","1","0">>,
      <<"9","8","7","6","5","4","3","2","1","0">> }

\* the phones requests come in for: the one client's, or everybody's
Phones(m) == IF m = "several" THEN RawPhones ELSE ClientPhones

\* Math.floor(Math.random() * 900000): the two ends of its range
RandomDraws == {0, 899999}

\* Math.floor(100000 + Math.random() * 900000).toString()
generateOTP(draw) == ToString(100000 + draw)

Codes == { generateOTP(d) : d \in RandomDraws }

\* sha256 hex digest; modelled as an injective tagging (no collisions)
hashOTP(otp) == <<"sha256", otp>>

Passwords == {"pw1"}

\* the password of an account that exists before the first request
OldPassword == "pw0"

\* ------------------------------------------------------------------ state

NoRec == [exists |-> FALSE]
NoUser == "<no user>"

Resp(status, message) == [status |-> status, message |-> message]
NoResp == Resp(0, "")

\* the responses of /send-otp
SendInvalid == Resp(400, "phone is required")
SendOk == Resp(200, "OTP sent successfully")
SendFailed == Resp(500, "Failed to send OTP")

\* the responses /verify-otp and /reset-password share
NotFound == Resp(400, "OTP not found or already used")
Expired == Resp(400, "OTP expired")
Mismatch == Resp(400, "Invalid OTP")

\* the other responses of /verify-otp; VerifyOk is {success: true, verified: true}
VerifyInvalid == Resp(400, "phone and otp are required")
VerifyOk == Resp(200, "verified")
VerifyFailed == Resp(500, "Verification failed")

\* the other responses of /reset-password
ResetInvalid == Resp(400, "phone, otp and newPassword are required")
ResetOk == Resp(200, "Password updated")
ResetFailed == Resp(500, "Password reset failed")

\* a request as it arrives; the fields of a request in flight:
\*   pc           the await the handler is suspended at
\*   op           "send", "verify" or "reset"
\*   key          phone / cleanPhone
\*   otp          the generated code (send) or the submitted one
\*   newPassword  as submitted
\*   at           Date.now() as the handler last read it (line 67, 112 or 142)
\*   snap         what ref.get() returned
\*   mut          the write the handler has made to otp_requests
\*   auth         the identity-store calls the handler has made
Fresh ==
    [pc |-> "start", op |-> "none", key |-> <<>>, otp |-> Missing,
     newPassword |-> Missing, at |-> 0, snap |-> NoRec,
     mut |-> "none", auth |-> <<>>, resp |-> NoResp]

InFlight == BagToSet(req)

InitWith(m) ==
    /\ store = [k \in Keys |-> NoRec]
    /\ \E registered \in BOOLEAN :
          users = [k \in Keys |-> IF registered THEN OldPassword ELSE NoUser]
    /\ now = 0
    /\ req = EmptyBag
    /\ mode = m
    /\ log = <<>>
    /\ begun = 0
    /\ twilio = [store |-> store, users |-> users, req |-> Fresh, resp |-> NoResp]

Init == InitWith("concurrent")

SeqInit == InitWith("sequential")

\* ------------------------------------------------------------------ helpers

\* a request is received when a handler invocation is free; the sequential
\* client sends only when nothing is in flight
CanBegin ==
    /\ BagCardinality(req) < NumProcs
    /\ mode \in {"sequential", "several", "paired"} => req = EmptyBag
    /\ begun < MaxReqs
    /\ begun' = begun + 1

Record(r) ==
    IF mode = "sequential" THEN Append(log, r)
    ELSE IF mode = "paired" THEN <<r>>
    ELSE log

\* a request rejected before the handler's first await
Reject(r, resp) ==
    /\ req' = req
    /\ log' = Record([r EXCEPT !.pc = "done", !.resp = resp])

\* a request passes validation: the handler suspends at its first await
Accept(r) ==
    /\ req' = req (+) SetToBag({r})
    /\ log' = log

\* res.status(..).json(..): request r is answered, as r2 with response resp
Respond(r, r2, resp) ==
    /\ req' = req (-) SetToBag({r})
    /\ log' = Record([r2 EXCEPT !.pc = "done", !.resp = resp])

\* the handler of r goes on to its next await, as r2
Goto(r, r2) ==
    /\ req' = (req (-) SetToBag({r})) (+) SetToBag({r2})
    /\ log' = log

\* a call to the SMS gateway or to the identity store returns (TRUE) or
\* throws (FALSE); the calls to otp_requests are taken to return
Outcomes == BOOLEAN

\* an expiry test that already rejects at the instant expiresAt
IsExpiredAtBoundary(t, data) == t >= data.expiresAt

\* Date.now() > data.expiresAt
IsExpired(t, data) == t > data.expiresAt

\* hashOTP(otp) !== data.otpHash
HashDiffers(otp, data) == hashOTP(otp) # data.otpHash

\* a set that updates the hash of an existing document in place
\* (ref.update({otpHash}))
StoreSetInPlace(k, doc) ==
    store' = IF store[k].exists
             THEN [store EXCEPT ![k].otpHash = doc.otpHash]
             ELSE [store EXCEPT ![k] = doc]

\* a set that creates the document only when there is none (create semantics)
StoreSetIfAbsent(k, doc) ==
    store' = IF store[k].exists THEN store ELSE [store EXCEPT ![k] = doc]

\* ref.set(doc): an unconditional upsert of the whole document
StoreSet(k, doc) == store' = [store EXCEPT ![k] = doc]

\* a delete of the whole collection instead of the one document
StoreDeleteAll(k) == store' = [j \in Keys |-> NoRec]

\* a delete that is acknowledged and removes nothing
StoreDeleteKeeps(k) == store' = store

\* ref.delete(): unconditional, whatever document is there now
StoreDelete(k) == store' = [store EXCEPT ![k] = NoRec]

\* ------------------------------------------------------------------ /send-otp

\* validation, normalisation, code generation, expiry
SendOtpOf(phone, draw) ==
    /\ CanBegin
    /\ IF phone = NoPhone
       THEN Reject([Fresh EXCEPT !.op = "send"], SendInvalid)
       ELSE Accept([Fresh EXCEPT !.pc = "set", !.op = "send",
                                 !.key = CleanPhone(phone),
                                 !.otp = generateOTP(draw),
                                 !.at = now])
    /\ UNCHANGED <<store, users, now, mode>>

SendOtp ==
    \E phone \in Phones(mode) \cup {NoPhone}, draw \in RandomDraws :
        SendOtpOf(phone, draw)

\* await db.collection("otp_requests").doc(phone).set({...})
SendSet(q) ==
    /\ q \in InFlight /\ q.pc = "set" /\ q.op = "send"
    /\ StoreSet(q.key,
                [exists |-> TRUE,
                 otpHash |-> hashOTP(q.otp),
                 expiresAt |-> q.at + OTP_EXPIRY_MS,
                 createdAt |-> now])
    /\ Goto(q, [q EXCEPT !.pc = "deliver", !.mut = "put"])
    /\ UNCHANGED <<users, now, mode, begun>>

\* a send that rolls its record back when the delivery fails
SendDeliverRollsBack(q) ==
    /\ q \in InFlight /\ q.pc = "deliver" /\ q.op = "send"
    /\ \E ok \in Outcomes :
        IF ok
        THEN Respond(q, q, SendOk) /\ store' = store
        ELSE Respond(q, [q EXCEPT !.mut = "delete"], SendFailed) /\ StoreDelete(q.key)
    /\ UNCHANGED <<users, now, mode, begun>>

\* await axios.get(fast2sms) / await twilioClient.messages.create(...)
SendDeliverOf(q, ok) ==
    /\ q \in InFlight /\ q.pc = "deliver" /\ q.op = "send"
    /\ IF ok
       THEN Respond(q, q, SendOk)
       ELSE Respond(q, q, SendFailed)
    /\ UNCHANGED <<store, users, now, mode, begun>>

SendDeliver(q) == \E ok \in Outcomes : SendDeliverOf(q, ok)

\* ------------------------------------------------------------------ /verify-otp

\* a validation that tests the phone only: if (!phone)
VerifyOtpPhoneOnly ==
    /\ CanBegin
    /\ \E phone \in Phones(mode) \cup {NoPhone}, otp \in Codes \cup {Missing} :
        IF phone = NoPhone
        THEN Reject([Fresh EXCEPT !.op = "verify"], VerifyInvalid)
        ELSE Accept([Fresh EXCEPT !.pc = "get", !.op = "verify",
                                  !.key = CleanPhone(phone), !.otp = otp])
    /\ UNCHANGED <<store, users, now, mode>>

VerifyOtpOf(phone, otp) ==
    /\ CanBegin
    /\ IF phone = NoPhone \/ otp = Missing
       THEN Reject([Fresh EXCEPT !.op = "verify"], VerifyInvalid)
       ELSE Accept([Fresh EXCEPT !.pc = "get", !.op = "verify",
                                 !.key = CleanPhone(phone), !.otp = otp])
    /\ UNCHANGED <<store, users, now, mode>>

VerifyOtp ==
    \E phone \in Phones(mode) \cup {NoPhone}, otp \in Codes \cup {Missing} :
        VerifyOtpOf(phone, otp)

\* const snap = await ref.get()
VerifyGet(q) ==
    /\ q \in InFlight /\ q.pc = "get" /\ q.op = "verify"
    /\ Goto(q, [q EXCEPT !.pc = "check", !.snap = store[q.key]])
    /\ UNCHANGED <<store, users, now, mode, begun>>

\* a verify that burns the record on a wrong code
VerifyCheckBurnsOnMismatch(q) ==
    /\ q \in InFlight /\ q.pc = "check" /\ q.op = "verify"
    /\ LET r == [q EXCEPT !.at = now] IN
        IF ~r.snap.exists
        THEN Respond(q, r, NotFound) /\ store' = store
        ELSE IF IsExpired(now, r.snap)
        THEN Goto(q, [r EXCEPT !.pc = "expire"]) /\ store' = store
        ELSE IF HashDiffers(r.otp, r.snap)
        THEN Respond(q, [r EXCEPT !.mut = "delete"], Mismatch) /\ StoreDelete(q.key)
        ELSE Respond(q, r, VerifyOk) /\ store' = store
    /\ UNCHANGED <<users, now, mode, begun>>

\* a verify that consumes the record on success, as the reset does
VerifyCheckConsumes(q) ==
    /\ q \in InFlight /\ q.pc = "check" /\ q.op = "verify"
    /\ LET r == [q EXCEPT !.at = now] IN
        IF ~r.snap.exists
        THEN Respond(q, r, NotFound) /\ store' = store
        ELSE IF IsExpired(now, r.snap)
        THEN Goto(q, [r EXCEPT !.pc = "expire"]) /\ store' = store
        ELSE IF HashDiffers(r.otp, r.snap)
        THEN Respond(q, r, Mismatch) /\ store' = store
        ELSE Respond(q, [r EXCEPT !.mut = "delete"], VerifyOk) /\ StoreDelete(q.key)
    /\ UNCHANGED <<users, now, mode, begun>>

\* the checks that follow the get: existence, expiry, hash
VerifyCheck(q) ==
    /\ q \in InFlight /\ q.pc = "check" /\ q.op = "verify"
    /\ LET r == [q EXCEPT !.at = now] IN
        IF ~r.snap.exists
        THEN Respond(q, r, NotFound)
        ELSE IF IsExpired(now, r.snap)
        THEN Goto(q, [r EXCEPT !.pc = "expire"])
        ELSE IF HashDiffers(r.otp, r.snap)
        THEN Respond(q, r, Mismatch)
        ELSE Respond(q, r, VerifyOk)
    /\ UNCHANGED <<store, users, now, mode, begun>>

\* an expiry branch that answers Expired and leaves the record in place
VerifyExpireKeeps(q) ==
    /\ q \in InFlight /\ q.pc = "expire" /\ q.op = "verify"
    /\ Respond(q, q, Expired)
    /\ UNCHANGED <<store, users, now, mode, begun>>

\* await ref.delete() of the expired record
VerifyExpire(q) ==
    /\ q \in InFlight /\ q.pc = "expire" /\ q.op = "verify"
    /\ StoreDelete(q.key)
    /\ Respond(q, [q EXCEPT !.mut = "delete"], Expired)
    /\ UNCHANGED <<users, now, mode, begun>>

\* ------------------------------------------------------------------ /reset-password

ResetPasswordOf(phone, otp, pw) ==
    /\ CanBegin
    /\ IF phone = NoPhone \/ otp = Missing \/ pw = Missing
       THEN Reject([Fresh EXCEPT !.op = "reset"], ResetInvalid)
       ELSE Accept([Fresh EXCEPT !.pc = "get", !.op = "reset",
                                 !.key = CleanPhone(phone), !.otp = otp,
                                 !.newPassword = pw])
    /\ UNCHANGED <<store, users, now, mode>>

ResetPassword ==
    \E phone \in Phones(mode) \cup {NoPhone}, otp \in Codes \cup {Missing},
       pw \in Passwords \cup {Missing} :
        ResetPasswordOf(phone, otp, pw)

\* const snap = await ref.get()
ResetGet(q) ==
    /\ q \in InFlight /\ q.pc = "get" /\ q.op = "reset"
    /\ Goto(q, [q EXCEPT !.pc = "check", !.snap = store[q.key]])
    /\ UNCHANGED <<store, users, now, mode, begun>>

\* a reset that compares the hash before it tests the expiry
ResetCheckHashFirst(q) ==
    /\ q \in InFlight /\ q.pc = "check" /\ q.op = "reset"
    /\ LET r == [q EXCEPT !.at = now] IN
        IF ~r.snap.exists
        THEN Respond(q, r, NotFound)
        ELSE IF HashDiffers(r.otp, r.snap)
        THEN Respond(q, r, Mismatch)
        ELSE IF IsExpired(now, r.snap)
        THEN Goto(q, [r EXCEPT !.pc = "expire"])
        ELSE Goto(q, [r EXCEPT !.pc = "consume"])
    /\ UNCHANGED <<store, users, now, mode, begun>>

\* a reset that does not compare the hash
ResetCheckNoHash(q) ==
    /\ q \in InFlight /\ q.pc = "check" /\ q.op = "reset"
    /\ LET r == [q EXCEPT !.at = now] IN
        IF ~r.snap.exists
        THEN Respond(q, r, NotFound)
        ELSE IF IsExpired(now, r.snap)
        THEN Goto(q, [r EXCEPT !.pc = "expire"])
        ELSE Goto(q, [r EXCEPT !.pc = "consume"])
    /\ UNCHANGED <<store, users, now, mode, begun>>

\* the checks that follow the get: existence, expiry, hash
ResetCheck(q) ==
    /\ q \in InFlight /\ q.pc = "check" /\ q.op = "reset"
    /\ LET r == [q EXCEPT !.at = now] IN
        IF ~r.snap.exists
        THEN Respond(q, r, NotFound)
        ELSE IF IsExpired(now, r.snap)
        THEN Goto(q, [r EXCEPT !.pc = "expire"])
        ELSE IF HashDiffers(r.otp, r.snap)
        THEN Respond(q, r, Mismatch)
        ELSE Goto(q, [r EXCEPT !.pc = "consume"])
    /\ UNCHANGED <<store, users, now, mode, begun>>

\* await ref.delete() of the expired record
ResetExpire(q) ==
    /\ q \in InFlight /\ q.pc = "expire" /\ q.op = "reset"
    /\ StoreDelete(q.key)
    /\ Respond(q, [q EXCEPT !.mut = "delete"], Expired)
    /\ UNCHANGED <<users, now, mode, begun>>

\* a reset that goes to the identity store first and leaves the delete for later
ResetConsumeDeferred(q) ==
    /\ q \in InFlight /\ q.pc = "consume" /\ q.op = "reset"
    /\ Goto(q, [q EXCEPT !.pc = "lookup"])
    /\ UNCHANGED <<store, users, now, mode, begun>>

\* a consume that asks the store to delete only the document it has read
\* (a precondition on the delete), and answers NotFound when it is gone
ResetConsumeIfUnchanged(q) ==
    /\ q \in InFlight /\ q.pc = "consume" /\ q.op = "reset"
    /\ IF store[q.key] = q.snap
       THEN /\ StoreDelete(q.key)
            /\ Goto(q, [q EXCEPT !.pc = "lookup", !.mut = "delete"])
       ELSE /\ Respond(q, q, NotFound)
            /\ store' = store
    /\ UNCHANGED <<users, now, mode, begun>>

\* await ref.delete() of the verified record
ResetConsume(q) ==
    /\ q \in InFlight /\ q.pc = "consume" /\ q.op = "reset"
    /\ StoreDelete(q.key)
    /\ Goto(q, [q EXCEPT !.pc = "lookup", !.mut = "delete"])
    /\ UNCHANGED <<users, now, mode, begun>>

\* await admin.auth().getUserByEmail(email)
ResetGetUserOf(q, ok) ==
    /\ q \in InFlight /\ q.pc = "lookup" /\ q.op = "reset"
    /\ LET r == [q EXCEPT !.auth = Append(@, "getUserByEmail")] IN
        IF ~ok
        THEN Respond(q, r, ResetFailed)
        ELSE IF users[r.key] = NoUser
        THEN Goto(q, [r EXCEPT !.pc = "create"])
        ELSE Goto(q, [r EXCEPT !.pc = "update"])
    /\ UNCHANGED <<store, users, now, mode, begun>>

ResetGetUser(q) == \E ok \in Outcomes : ResetGetUserOf(q, ok)

\* what await admin.auth().updateUser(..) does: it returns, or it throws an
\* error e with this e.code
UpdateResults == {"ok", "auth/user-not-found", "auth/internal-error"}

\* await admin.auth().updateUser(user.uid, {password}), inside the same try
\* block as the lookup: its catch sends e.code "auth/user-not-found" on to
\* createUser and rethrows every other error. The identity store throws
\* "auth/user-not-found" here when the account has been removed, outside this
\* server, since the lookup returned it.
ResetUpdateUserOf(q, result) ==
    /\ q \in InFlight /\ q.pc = "update" /\ q.op = "reset"
    /\ LET r == [q EXCEPT !.auth = Append(@, "updateUser")] IN
        IF result = "ok"
        THEN /\ users' = [users EXCEPT ![r.key] = r.newPassword]
             /\ Respond(q, r, ResetOk)
        ELSE IF result = "auth/user-not-found"
        THEN /\ users' = [users EXCEPT ![r.key] = NoUser]
             /\ Goto(q, [r EXCEPT !.pc = "create"])
        ELSE /\ users' = users
             /\ Respond(q, r, ResetFailed)
    /\ UNCHANGED <<store, now, mode, begun>>

ResetUpdateUser(q) == \E result \in UpdateResults : ResetUpdateUserOf(q, result)

\* await admin.auth().createUser({email, phoneNumber, password}); the
\* identity store refuses an email that already has an account
ResetCreateUserOf(q, ok) ==
    /\ q \in InFlight /\ q.pc = "create" /\ q.op = "reset"
    /\ LET r == [q EXCEPT !.auth = Append(@, "createUser")] IN
        IF ok /\ users[r.key] = NoUser
        THEN /\ users' = [users EXCEPT ![r.key] = r.newPassword]
             /\ Respond(q, r, ResetOk)
        ELSE /\ users' = users
             /\ Respond(q, r, ResetFailed)
    /\ UNCHANGED <<store, now, mode, begun>>

ResetCreateUser(q) == \E ok \in Outcomes : ResetCreateUserOf(q, ok)

\* ------------------------------------------------------------------ clock

\* a clock step with a sweeper that removes the records past their expiresAt
TickSweeps ==
    /\ now < MaxTicks * TickMs
    /\ now' = now + TickMs
    /\ store' = [k \in Keys |->
                    IF store[k].exists /\ now' > store[k].expiresAt
                    THEN NoRec ELSE store[k]]
    /\ UNCHANGED <<users, req, mode, log, begun>>

Tick ==
    /\ now < MaxTicks * TickMs
    /\ now' = now + TickMs
    /\ UNCHANGED <<store, users, req, mode, log, begun>>

\* the requests go to this server alone
Next ==
    \/ SendOtp /\ UNCHANGED twilio
    \/ \E q \in InFlight : SendSet(q) /\ UNCHANGED twilio
    \/ \E q \in InFlight : SendDeliver(q) /\ UNCHANGED twilio
    \/ VerifyOtp /\ UNCHANGED twilio
    \/ \E q \in InFlight : VerifyGet(q) /\ UNCHANGED twilio
    \/ \E q \in InFlight : VerifyCheck(q) /\ UNCHANGED twilio
    \/ \E q \in InFlight : VerifyExpire(q) /\ UNCHANGED twilio
    \/ ResetPassword /\ UNCHANGED twilio
    \/ \E q \in InFlight : ResetGet(q) /\ UNCHANGED twilio
    \/ \E q \in InFlight : ResetCheck(q) /\ UNCHANGED twilio
    \/ \E q \in InFlight : ResetExpire(q) /\ UNCHANGED twilio
    \/ \E q \in InFlight : ResetConsume(q) /\ UNCHANGED twilio
    \/ \E q \in InFlight : ResetGetUser(q) /\ UNCHANGED twilio
    \/ \E q \in InFlight : ResetUpdateUser(q) /\ UNCHANGED twilio
    \/ \E q \in InFlight : ResetCreateUser(q) /\ UNCHANGED twilio
    \/ Tick /\ UNCHANGED twilio

Spec == Init /\ [][Next]_vars

SeqSpec == SeqInit /\ [][Next]_vars

ManyInit == InitWith("several")

ManySpec == ManyInit /\ [][Next]_vars

\* ------------------------------------------------------------------ the Twilio server

\* src/unnamed/part_000, handler by handler. twilio.req is the request its
\* handler is suspended on (Fresh when it has none), twilio.resp its last
\* response, twilio.store and twilio.users its otp_requests and identity store.

TWILIO_OTP_EXPIRY_MS == 5 * 60 * 1000

\* phone.replace(/\D/g, "").slice(-10)
TwilioCleanPhone(phone) ==
    LET digits == SelectSeq(phone, LAMBDA ch : ch \in Digits)
    IN  IF Len(digits) > 10
        THEN SubSeq(digits, Len(digits) - 9, Len(digits))
        ELSE digits

\* crypto.createHash("sha256").update(otp).digest("hex")
TwilioHashOTP(otp) == <<"sha256", otp>>

\* return res.status(status).json({message})
TwilioAnswer(status, message) ==
    twilio' = [twilio EXCEPT !.req = Fresh,
                             !.resp = [status |-> status, message |-> message]]

\* the handler suspends at its next await, as r
TwilioAwait(r) == twilio' = [twilio EXCEPT !.req = r]

\* /send-otp up to its first await
TwilioSendOtp(phone, draw) ==
    /\ twilio.req = Fresh
    /\ IF phone = NoPhone
       THEN TwilioAnswer(400, "phone is required")
       ELSE TwilioAwait([Fresh EXCEPT !.pc = "set", !.op = "send",
                                      !.key = TwilioCleanPhone(phone),
                                      !.otp = generateOTP(draw),
                                      !.at = now])

\* await db.collection("otp_requests").doc(phone).set({...})
TwilioSendSet ==
    /\ twilio.req.pc = "set" /\ twilio.req.op = "send"
    /\ twilio' = [twilio EXCEPT
          !.store[twilio.req.key] =
              [exists |-> TRUE,
               otpHash |-> TwilioHashOTP(twilio.req.otp),
               expiresAt |-> twilio.req.at + TWILIO_OTP_EXPIRY_MS,
               createdAt |-> now],
          !.req = [twilio.req EXCEPT !.pc = "deliver", !.mut = "put"]]

\* await twilioClient.messages.create({body, from, to})
TwilioSendDeliver(ok) ==
    /\ twilio.req.pc = "deliver" /\ twilio.req.op = "send"
    /\ IF ok
       THEN TwilioAnswer(200, "OTP sent successfully")
       ELSE TwilioAnswer(500, "Failed to send OTP")

\* /verify-otp up to its first await
TwilioVerifyOtp(phone, otp) ==
    /\ twilio.req = Fresh
    /\ IF phone = NoPhone \/ otp = Missing
       THEN TwilioAnswer(400, "phone and otp are required")
       ELSE TwilioAwait([Fresh EXCEPT !.pc = "get", !.op = "verify",
                                      !.key = TwilioCleanPhone(phone),
                                      !.otp = otp])

\* /reset-password up to its first await
TwilioResetPassword(phone, otp, pw) ==
    /\ twilio.req = Fresh
    /\ IF phone = NoPhone \/ otp = Missing \/ pw = Missing
       THEN TwilioAnswer(400, "phone, otp and newPassword are required")
       ELSE TwilioAwait([Fresh EXCEPT !.pc = "get", !.op = "reset",
                                      !.key = TwilioCleanPhone(phone),
                                      !.otp = otp, !.newPassword = pw])

\* const snap = await ref.get(), in either handler
TwilioGet(op) ==
    /\ twilio.req.pc = "get" /\ twilio.req.op = op
    /\ TwilioAwait([twilio.req EXCEPT !.pc = "check",
                                      !.snap = twilio.store[twilio.req.key]])

\* the checks of /verify-otp after the get
TwilioVerifyCheck ==
    /\ twilio.req.pc = "check" /\ twilio.req.op = "verify"
    /\ LET r == [twilio.req EXCEPT !.at = now] IN
        IF ~r.snap.exists
        THEN TwilioAnswer(400, "OTP not found or already used")
        ELSE IF now > r.snap.expiresAt
        THEN TwilioAwait([r EXCEPT !.pc = "expire"])
        ELSE IF TwilioHashOTP(r.otp) # r.snap.otpHash
        THEN TwilioAnswer(400, "Invalid OTP")
        ELSE TwilioAnswer(200, "verified")

\* the checks of /reset-password after the get
TwilioResetCheck ==
    /\ twilio.req.pc = "check" /\ twilio.req.op = "reset"
    /\ LET r == [twilio.req EXCEPT !.at = now] IN
        IF ~r.snap.exists
        THEN TwilioAnswer(400, "OTP not found or already used")
        ELSE IF now > r.snap.expiresAt
        THEN TwilioAwait([r EXCEPT !.pc = "expire"])
        ELSE IF TwilioHashOTP(r.otp) # r.snap.otpHash
        THEN TwilioAnswer(400, "Invalid OTP")
        ELSE TwilioAwait([r EXCEPT !.pc = "consume"])

\* await ref.delete() of the expired record, in either handler
TwilioExpire(op) ==
    /\ twilio.req.pc = "expire" /\ twilio.req.op = op
    /\ twilio' = [twilio EXCEPT
          !.store[twilio.req.key] = NoRec,
          !.req = Fresh,
          !.resp = [status |-> 400, message |-> "OTP expired"]]

\* await ref.delete() of the verified record
TwilioResetConsume ==
    /\ twilio.req.pc = "consume" /\ twilio.req.op = "reset"
    /\ twilio' = [twilio EXCEPT
          !.store[twilio.req.key] = NoRec,
          !.req = [twilio.req EXCEPT !.pc = "lookup", !.mut = "delete"]]

\* await admin.auth().getUserByEmail(email)
TwilioResetGetUser(ok) ==
    /\ twilio.req.pc = "lookup" /\ twilio.req.op = "reset"
    /\ LET r == [twilio.req EXCEPT !.auth = Append(@, "getUserByEmail")] IN
        IF ~ok
        THEN TwilioAnswer(500, "Password reset failed")
        ELSE IF twilio.users[r.key] = NoUser
        THEN TwilioAwait([r EXCEPT !.pc = "create"])
        ELSE TwilioAwait([r EXCEPT !.pc = "update"])

\* await admin.auth().updateUser(user.uid, {password}), in the try block
TwilioResetUpdateUser(result) ==
    /\ twilio.req.pc = "update" /\ twilio.req.op = "reset"
    /\ LET r == [twilio.req EXCEPT !.auth = Append(@, "updateUser")] IN
        IF result = "ok"
        THEN twilio' = [twilio EXCEPT
                 !.users[r.key] = r.newPassword,
                 !.req = Fresh,
                 !.resp = [status |-> 200, message |-> "Password updated"]]
        ELSE IF result = "auth/user-not-found"
        THEN twilio' = [twilio EXCEPT
                 !.users[r.key] = NoUser,
                 !.req = [r EXCEPT !.pc = "create"]]
        ELSE TwilioAnswer(500, "Password reset failed")

\* await admin.auth().createUser({email, phoneNumber, password})
TwilioResetCreateUser(ok) ==
    /\ twilio.req.pc = "create" /\ twilio.req.op = "reset"
    /\ LET r == [twilio.req EXCEPT !.auth = Append(@, "createUser")] IN
        IF ok /\ twilio.users[r.key] = NoUser
        THEN twilio' = [twilio EXCEPT
                 !.users[r.key] = r.newPassword,
                 !.req = Fresh,
                 !.resp = [status |-> 200, message |-> "Password updated"]]
        ELSE TwilioAnswer(500, "Password reset failed")

\* every request, and every result of a downstream call, goes to both servers
PairNext ==
    \/ \E phone \in ClientPhones \cup {NoPhone}, draw \in RandomDraws :
          SendOtpOf(phone, draw) /\ TwilioSendOtp(phone, draw)
    \/ \E q \in InFlight : SendSet(q) /\ TwilioSendSet
    \/ \E q \in InFlight, ok \in Outcomes :
          SendDeliverOf(q, ok) /\ TwilioSendDeliver(ok)
    \/ \E phone \in ClientPhones \cup {NoPhone}, otp \in Codes \cup {Missing} :
          VerifyOtpOf(phone, otp) /\ TwilioVerifyOtp(phone, otp)
    \/ \E q \in InFlight : VerifyGet(q) /\ TwilioGet("verify")
    \/ \E q \in InFlight : VerifyCheck(q) /\ TwilioVerifyCheck
    \/ \E q \in InFlight : VerifyExpire(q) /\ TwilioExpire("verify")
    \/ \E phone \in ClientPhones \cup {NoPhone}, otp \in Codes \cup {Missing},
          pw \in Passwords \cup {Missing} :
          ResetPasswordOf(phone, otp, pw) /\ TwilioResetPassword(phone, otp, pw)
    \/ \E q \in InFlight : ResetGet(q) /\ TwilioGet("reset")
    \/ \E q \in InFlight : ResetCheck(q) /\ TwilioResetCheck
    \/ \E q \in InFlight : ResetExpire(q) /\ TwilioExpire("reset")
    \/ \E q \in InFlight : ResetConsume(q) /\ TwilioResetConsume
    \/ \E q \in InFlight, ok \in Outcomes :
          ResetGetUserOf(q, ok) /\ TwilioResetGetUser(ok)
    \/ \E q \in InFlight, result \in UpdateResults :
          ResetUpdateUserOf(q, result) /\ TwilioResetUpdateUser(result)
    \/ \E q \in InFlight, ok \in Outcomes :
          ResetCreateUserOf(q, ok) /\ TwilioResetCreateUser(ok)
    \/ Tick /\ UNCHANGED twilio

PairInit == InitWith("paired")

PairSpec == PairInit /\ [][PairNext]_vars

\* ------------------------------------------------------------------ phone formats

\* ten-digit national numbers
Nationals ==
    { <<"9","8","7","6","5","4","3","2","1","0">>,
      <<"9","1","2","3","4","5","6","7","8","0">> }

\* what a client may write before the number: nothing, the country code, the
\* trunk zero
Prefixes == { <<>>, <<"+","9","1"," ">>, <<"0">> }

\* what a client may write between the two halves of the number
GroupSeps == { <<>>, <<"-">> }

\* the national number n as typed with prefix p and separator s
Format(n, p, s) == p \o SubSeq(n, 1, 5) \o s \o SubSeq(n, 6, 10)

NormInit == InitWith("normalise")

\* one more phone string is normalised, as line 63 (and 103, 135) does it; the
\* session keeps the input and the result
Normalize ==
    /\ begun < MaxReqs
    /\ begun' = begun + 1
    /\ \E n \in Nationals, p \in Prefixes, s \in GroupSeps :
        LET phone == Format(n, p, s) IN
        log' = Append(log, [national |-> n, phone |-> phone,
                            cleanPhone |-> CleanPhone(phone)])
    /\ UNCHANGED <<store, users, now, req, mode, twilio>>

NormSpec == NormInit /\ [][Normalize]_vars

\* ------------------------------------------------------------------ stuck calls

\* the awaits on a downstream call: the store (set, get, delete), the SMS
\* gateway, the identity store
DownstreamCalls ==
    {"set", "deliver", "get", "expire", "consume", "lookup", "update", "create"}

\* the downstream call a handler awaits never settles: no call is given a
\* timeout and no await is raced against a timer, so the handler stays
\* suspended at it
Hang(q) ==
    /\ q \in InFlight /\ q.pc \in DownstreamCalls
    /\ Goto(q, [q EXCEPT !.pc = "hung"])
    /\ UNCHANGED <<store, users, now, mode, begun, twilio>>

LiveNext ==
    \/ Next
    \/ \E q \in InFlight : Hang(q)

\* every call that settles resumes its handler (the event loop runs every
\* continuation that is ready), requests arrive and the clock advances
LiveSpec == Init /\ [][LiveNext]_vars /\ WF_vars(Next)

\* ------------------------------------------------------------------ properties

\* the handler of q takes a step
Acts(q) == CopiesIn(q, req') < CopiesIn(q, req)

\* no call the answered request e made threw (the catch block answers 500)
NoFault(e) == e.resp.status # 500

\* the positions of the session
Pos == 1..Len(log)

\* positions i and i+1 of the session
Pairs == { i \in Pos : i + 1 \in Pos }

\* C1: consumeForReset is single-use for sequential calls: a reset that is
\* answered "Password updated" has deleted the record, and the reset that
\* follows it next with the same code reads no record, makes no write and no
\* identity-store call, and is answered NotFound (400, "OTP not found or
\* already used").
C1_SingleUse ==
    \A i \in Pairs :
        LET a == log[i]
            b == log[i + 1]
        IN  (a.op = "reset" /\ a.resp = ResetOk /\
             b.op = "reset" /\ b.key = a.key /\ b.otp = a.otp)
            => /\ a.mut = "delete"
               /\ ~b.snap.exists
               /\ b.mut = "none"
               /\ b.auth = <<>>
               /\ b.resp = NotFound

C1_Witness ==
    \E i \in Pairs :
        /\ log[i].op = "reset" /\ log[i].resp = ResetOk
        /\ log[i + 1].op = "reset" /\ log[i + 1].otp = log[i].otp
        /\ log[i + 1].key = log[i].key
        /\ log[i + 1].resp = NotFound

\* C2: a delete made by a verify/reset request removes only the record that
\* request's get observed: it never removes a record that a send request has
\* put since.
C2_DeleteOnlyWhatWasRead ==
    [][\A q \in InFlight :
          (Acts(q) /\ q.pc \in {"expire", "consume"} /\ store'[q.key] # store[q.key])
          => store[q.key] = q.snap]_vars

\* C3: the reset handler acts on its snapshot alone: once its checks have
\* passed, its delete returns and it goes on to the identity store whether or
\* not the record it read is still the one in the store. Nothing therefore
\* stops two resets that read the same record from both reaching the identity
\* store (C3_Witness).
C3_ConsumeIgnoresStore ==
    [][\A q \in InFlight :
          (Acts(q) /\ q.pc = "consume")
          => \E r \in BagToSet(req') :
                /\ r = [q EXCEPT !.pc = "lookup", !.mut = "delete"]
                /\ CopiesIn(r, req') > CopiesIn(r, req)]_vars

\* two resets in flight, both past the delete, on one and the same record
C3_Witness ==
    \E q \in InFlight :
        /\ q.op = "reset" /\ q.pc \in {"update", "create"}
        /\ \/ CopiesIn(q, req) >= 2
           \/ \E r \in InFlight \ {q} :
                /\ r.op = "reset" /\ r.pc \in {"lookup", "update", "create"}
                /\ r.key = q.key /\ r.snap = q.snap

\* C4: the record is deleted before the identity store is contacted: every
\* request that has made, or is about to make, an identity-store call has
\* completed its delete; and after a reset that failed in the identity store
\* (500, "Password reset failed") the next reset with the same code reads no
\* record and is answered NotFound.
C4_DeleteBeforeIdentity ==
    /\ \A q \in InFlight :
          (q.pc \in {"lookup", "update", "create"} \/ q.auth # <<>>)
          => q.mut = "delete"
    /\ \A i \in Pos : log[i].auth # <<>> => log[i].mut = "delete"
    /\ \A i \in Pairs :
          LET a == log[i]
              b == log[i + 1]
          IN  (a.op = "reset" /\ a.resp = ResetFailed /\ a.auth # <<>> /\
               b.op = "reset" /\ b.key = a.key /\ b.otp = a.otp)
              => /\ ~b.snap.exists
                 /\ b.auth = <<>>
                 /\ b.resp = NotFound

C4_Witness ==
    \E i \in Pairs :
        /\ log[i].op = "reset" /\ log[i].resp = ResetFailed /\ log[i].auth # <<>>
        /\ log[i + 1].op = "reset" /\ log[i + 1].otp = log[i].otp
        /\ log[i + 1].key = log[i].key
        /\ log[i + 1].resp = NotFound

\* positions i, i+1 and i+2 of the session
Triples == { i \in Pos : i + 2 \in Pos }

\* C5 as claimed: after two sends in a row for one phone, the second of which
\* stored its record, a verify with the first send's code is not answered
\* success, whatever the two generated codes are.
C5_FirstCodeNeverVerifies ==
    \A i \in Triples :
        LET a == log[i]
            b == log[i + 1]
            c == log[i + 2]
        IN  (a.op = "send" /\ a.otp # Missing /\
             b.op = "send" /\ b.key = a.key /\ b.mut = "put" /\
             c.op = "verify" /\ c.key = a.key /\ c.otp = a.otp)
            => c.resp # VerifyOk

\* C5 as amended: the same, when the second send generated a code different
\* from the first: the verify is answered Mismatch or Expired, never success.
C5_FirstCodeInvalidated ==
    \A i \in Triples :
        LET a == log[i]
            b == log[i + 1]
            c == log[i + 2]
        IN  (a.op = "send" /\ a.otp # Missing /\
             b.op = "send" /\ b.key = a.key /\ b.mut = "put" /\
             c.op = "verify" /\ c.key = a.key /\ c.otp = a.otp /\
             b.otp # a.otp)
            => /\ c.resp # VerifyOk
               /\ c.resp \in {Mismatch, Expired}

C5_Witness ==
    \E i \in Triples :
        /\ log[i].op = "send" /\ log[i].mut = "put"
        /\ log[i + 1].op = "send" /\ log[i + 1].mut = "put"
        /\ log[i + 1].key = log[i].key /\ log[i + 1].otp # log[i].otp
        /\ log[i + 2].op = "verify" /\ log[i + 2].otp = log[i].otp
        /\ log[i + 2].key = log[i].key
        /\ log[i + 2].resp = Mismatch

\* a request that was rejected for a missing field
Rejected(e) == e.resp \in {SendInvalid, VerifyInvalid, ResetInvalid}

\* nothing lies between positions i and j of the session but requests
\* satisfying Allowed
Between(i, j, Allowed(_)) == \A k \in (i + 1)..(j - 1) : Allowed(log[k])

\* the expiry a send wrote into its record
ExpiryOf(a) == a.at + OTP_EXPIRY_MS

\* C6: after a send whose store write succeeded (whether or not the delivery
\* did), with no other send or reset in between, a verify for the same phone
\* with the generated code whose clock reading is at most the record's
\* expiresAt is answered {success: true, verified: true}.
C6_FreshCodeVerifies ==
    \A j \in Pos : \A i \in 1..(j - 1) :
        LET a == log[i]
            b == log[j]
        IN  (a.op = "send" /\ a.mut = "put" /\
             b.op = "verify" /\ b.key = a.key /\ b.otp = a.otp /\
             b.at <= ExpiryOf(a) /\
             Between(i, j, LAMBDA e : e.op = "verify" \/ Rejected(e)))
            => b.resp = VerifyOk

\* the verify is made at the very last valid instant, now = expiresAt
C6_Witness ==
    \E i \in Pairs :
        /\ log[i].op = "send" /\ log[i].mut = "put"
        /\ log[i + 1].op = "verify" /\ log[i + 1].otp = log[i].otp
        /\ log[i + 1].key = log[i].key
        /\ log[i + 1].at = ExpiryOf(log[i])
        /\ log[i + 1].resp = VerifyOk

\* a verify or reset that submits a code other than c
WrongAttempt(e, c) == e.op \in {"verify", "reset"} /\ e.otp # Missing /\ e.otp # c

Success(e) == IF e.op = "verify" THEN VerifyOk ELSE ResetOk

\* C7: after a send that stored its record, and any number of wrong-code
\* attempts, a verify or reset within the TTL is answered Mismatch (400,
\* "Invalid OTP") when its code is wrong, having read the record the send
\* wrote and written nothing, and is answered success when its code is the
\* right one (an identity-store call that throws apart).
C7_MismatchKeepsRecord ==
    \A j \in Pos : \A i \in 1..(j - 1) :
        LET a == log[i]
            b == log[j]
        IN  (a.op = "send" /\ a.mut = "put" /\
             b.op \in {"verify", "reset"} /\ b.key = a.key /\ b.otp # Missing /\
             NoFault(b) /\ b.at <= ExpiryOf(a) /\
             Between(i, j, LAMBDA e : WrongAttempt(e, a.otp)))
            => /\ b.snap.exists /\ b.snap.otpHash = hashOTP(a.otp)
               /\ b.otp # a.otp =>
                    b.resp = Mismatch /\ b.mut = "none" /\ b.auth = <<>>
               /\ b.otp = a.otp => b.resp = Success(b)

\* send, a wrong-code attempt answered Mismatch, then the right code
C7_Witness ==
    \E i \in Triples :
        /\ log[i].op = "send" /\ log[i].mut = "put"
        /\ WrongAttempt(log[i + 1], log[i].otp) /\ log[i + 1].resp = Mismatch
        /\ log[i + 2].op \in {"verify", "reset"} /\ log[i + 2].otp = log[i].otp
        /\ log[i + 2].resp = Success(log[i + 2])

\* C8: a verify or reset that follows a send which stored its record, and
\* reads the clock past the record's expiresAt, is answered Expired (400, "OTP
\* expired") and has deleted the record; and the verify or reset that follows
\* one answered Expired reads no record and is answered NotFound.
C8_ExpiredIsDeleted ==
    \A i \in Pairs :
        LET a == log[i]
            b == log[i + 1]
        IN  /\ (a.op = "send" /\ a.mut = "put" /\
                b.op \in {"verify", "reset"} /\ b.key = a.key /\
                b.at > ExpiryOf(a))
               => b.resp = Expired /\ b.mut = "delete" /\ b.auth = <<>>
            /\ (a.op \in {"verify", "reset"} /\ a.resp = Expired /\
                b.op \in {"verify", "reset"} /\ b.key = a.key)
               => /\ a.mut = "delete"
                  /\ ~b.snap.exists
                  /\ b.resp = NotFound

C8_Witness ==
    \E i \in Triples :
        /\ log[i].op = "send" /\ log[i].mut = "put"
        /\ log[i + 1].op = "verify" /\ log[i + 1].resp = Expired
        /\ log[i + 1].otp = log[i].otp
        /\ log[i + 2].op \in {"verify", "reset"} /\ log[i + 2].resp = NotFound

\* C9: a verify never deletes an unexpired record: a verify answered success
\* has written nothing, the verify or reset that follows it with the same
\* code within the TTL reads the very same record and succeeds (an
\* identity-store call that throws apart), and every delete of an unexpired
\* record is a reset's.
C9_VerifyDoesNotConsume ==
    /\ \A i \in Pos :
          LET e == log[i] IN
          /\ (e.op = "verify" /\ e.resp = VerifyOk) => e.mut = "none"
          /\ e.mut = "delete" => (e.op = "reset" \/ IsExpired(e.at, e.snap))
    /\ \A q \in InFlight :
          q.mut = "delete" => (q.op = "reset" \/ IsExpired(q.at, q.snap))
    /\ \A i \in Pairs :
          LET a == log[i]
              b == log[i + 1]
          IN  (a.op = "verify" /\ a.resp = VerifyOk /\
               b.op \in {"verify", "reset"} /\ b.key = a.key /\ b.otp = a.otp /\
               NoFault(b) /\ b.at <= a.snap.expiresAt)
              => b.snap = a.snap /\ b.resp = Success(b)

\* send, a successful verify, then a successful reset with the same code
C9_Witness ==
    \E i \in Triples :
        /\ log[i].op = "send"
        /\ log[i + 1].op = "verify" /\ log[i + 1].resp = VerifyOk
        /\ log[i + 2].op = "reset" /\ log[i + 2].otp = log[i + 1].otp
        /\ log[i + 2].resp = ResetOk /\ log[i + 2].mut = "delete"

\* request e passed the three checks of the reset handler and deleted its record
Consumed(e) ==
    /\ e.op = "reset"
    /\ e.snap.exists /\ ~IsExpired(e.at, e.snap) /\ ~HashDiffers(e.otp, e.snap)
    /\ e.mut = "delete"

\* C10: the identity store is contacted only by a reset request that has
\* consumed a record in that same request: never by a send or a verify, and
\* never by a reset answered InvalidInput, NotFound, Expired or Mismatch.
C10_IdentityOnlyAfterConsume ==
    /\ \A q \in InFlight :
          (q.pc \in {"lookup", "update", "create"} \/ q.auth # <<>>) => Consumed(q)
    /\ \A i \in Pos :
          LET e == log[i] IN
          /\ e.auth # <<>> => Consumed(e) /\ e.resp \in {ResetOk, ResetFailed}
          /\ (e.op \in {"send", "verify"} \/
              e.resp \in {ResetInvalid, NotFound, Expired, Mismatch})
             => e.auth = <<>>
    /\ (\E k \in Keys : users[k] \in Passwords)
       => \E i \in Pos : Consumed(log[i]) /\ log[i].resp = ResetOk

\* a reset answered Mismatch, then a reset that reached the identity store
C10_Witness ==
    \E i \in Pairs :
        /\ log[i].op = "reset" /\ log[i].resp = Mismatch
        /\ log[i + 1].op = "reset" /\ log[i + 1].auth # <<>>

\* C11: a send whose delivery failed is answered 500 "Failed to send OTP" and
\* has made its put and no delete; once it is answered the store holds the
\* record it wrote, and the verify that follows with the undelivered code is
\* answered success up to the record's expiresAt and Expired after it.
C11_FailedDeliveryKeepsRecord ==
    /\ \A i \in Pos :
          (log[i].op = "send" /\ log[i].resp = SendFailed) => log[i].mut = "put"
    /\ (req = EmptyBag /\ log # <<>>)
       => LET a == log[Len(log)] IN
          (a.op = "send" /\ a.resp = SendFailed)
          => /\ store[a.key].exists
             /\ store[a.key].otpHash = hashOTP(a.otp)
             /\ store[a.key].expiresAt = ExpiryOf(a)
    /\ \A i \in Pairs :
          LET a == log[i]
              b == log[i + 1]
          IN  (a.op = "send" /\ a.resp = SendFailed /\
               b.op = "verify" /\ b.key = a.key /\ b.otp = a.otp)
              => /\ b.snap.exists
                 /\ b.at <= ExpiryOf(a) => b.resp = VerifyOk
                 /\ b.at > ExpiryOf(a) => b.resp = Expired

\* the delivery fails and the undelivered code then verifies
C11_Witness ==
    \E i \in Pairs :
        /\ log[i].op = "send" /\ log[i].resp = SendFailed
        /\ log[i + 1].op = "verify" /\ log[i + 1].otp = log[i].otp
        /\ log[i + 1].key = log[i].key
        /\ log[i + 1].resp = VerifyOk

\* the identity-store calls of one request, in order, that the orchestrator
\* is claimed to make: a lookup, then at most one of update and create
ClaimedCalls ==
    { <<>>,
      <<"getUserByEmail">>,
      <<"getUserByEmail", "updateUser">>,
      <<"getUserByEmail", "createUser">> }

\* C12: after the consume the orchestrator looks the account up, updates it
\* and creates nothing when the lookup found it, creates it only when the
\* lookup reported not found, and answers 500 after any other lookup, update
\* or creation failure without a further identity-store call: a request makes
\* a lookup and then at most one of update and create, a request that called
\* update calls no create, and a request whose last call failed for another
\* reason is answered "Password reset failed".
C12_OrchestratorCalls ==
    /\ \A q \in InFlight : q.auth \in ClaimedCalls
    /\ \A i \in Pos :
          LET e == log[i] IN
          /\ e.auth \in ClaimedCalls
          /\ e.resp = ResetOk => Len(e.auth) = 2
          /\ e.auth = <<"getUserByEmail">> => e.resp = ResetFailed

\* C13: every request is answered in the end, also when a downstream call
\* never returns: from some point on no handler is in flight.
C13_EveryRequestAnswered == <>[](req = EmptyBag)

\* C14: normalisation keeps the last ten digits: the key of a formatted
\* number is its national number, normalising a key again gives the same key,
\* and two inputs that are formats of one national number get the same key;
\* "+91 98765-43210" gets the key "9876543210".
C14_NormalizeIdempotent ==
    \A i \in Pos :
        LET e == log[i] IN
        /\ e.cleanPhone = e.national
        /\ CleanPhone(e.cleanPhone) = e.cleanPhone
        /\ \A j \in Pos :
              log[j].national = e.national => log[j].cleanPhone = e.cleanPhone
        /\ e.phone = <<"+","9","1"," ","9","8","7","6","5","-","4","3","2","1","0">>
           => e.cleanPhone = <<"9","8","7","6","5","4","3","2","1","0">>

\* "+91 98765-43210" and "9876543210" have both been normalised, to one key
C14_Witness ==
    \E i \in Pos, j \in Pos :
        /\ log[i].phone = <<"+","9","1"," ","9","8","7","6","5","-","4","3","2","1","0">>
        /\ log[j].phone = <<"9","8","7","6","5","4","3","2","1","0">>
        /\ log[i].cleanPhone = log[j].cleanPhone

\* C15: every operation is scoped to one phone key: a step changes the
\* record of a key only when it is a step of a handler working on that key;
\* the records of all other keys stay as they are.
C15_OtherKeysUnchanged ==
    [][\A k \in Keys :
          store'[k] # store[k] => \E q \in InFlight : Acts(q) /\ q.key = k]_vars

\* a send has just written its record while another key holds a record
C15_Witness ==
    \E q \in InFlight :
        /\ q.op = "send" /\ q.pc = "deliver" /\ store[q.key].exists
        /\ \E k \in Keys \ {q.key} : store[k].exists

\* C16 as claimed: every record's expiresAt is its createdAt plus the TTL.
C16_ExpiresAtIsCreatedAtPlusTTL ==
    \A k \in Keys :
        store[k].exists => store[k].expiresAt = store[k].createdAt + OTP_EXPIRY_MS

\* C16 as amended: a key has one record or none, and its record changes in two
\* ways only: a send handler's set replaces it whole, with the hash of that
\* send's code, expiresAt = that handler's Date.now() of line 67 plus the TTL,
\* and createdAt = the time of the write; a verify or reset handler's delete
\* removes it.
C16_RecordsWrittenWhole ==
    [][\A k \in Keys :
          store'[k] # store[k]
          => \/ /\ ~store'[k].exists
                /\ \E q \in InFlight :
                      /\ Acts(q) /\ q.key = k
                      /\ q.op \in {"verify", "reset"}
                      /\ q.pc \in {"expire", "consume"}
             \/ \E q \in InFlight :
                   /\ Acts(q) /\ q.key = k /\ q.op = "send"
                   /\ store'[k] = [exists |-> TRUE,
                                   otpHash |-> hashOTP(q.otp),
                                   expiresAt |-> q.at + OTP_EXPIRY_MS,
                                   createdAt |-> now]]_vars

\* a send has overwritten a record, some time after it read the clock
C16_Witness ==
    \E q \in InFlight :
        /\ q.op = "send" /\ q.pc = "deliver"
        /\ store[q.key].exists
        /\ store[q.key].expiresAt = q.at + OTP_EXPIRY_MS
        /\ store[q.key].createdAt > q.at

\* the InvalidInput response of each endpoint
InvalidOf(op) ==
    IF op = "send" THEN SendInvalid
    ELSE IF op = "verify" THEN VerifyInvalid
    ELSE ResetInvalid

\* C17: a request with a missing field is answered 400 InvalidInput and has
\* no effect: when a request arrives, either it is answered at once with its
\* endpoint's InvalidInput message, no handler is left in flight (so no store,
\* delivery or identity call is made) and the store and the accounts are as
\* before; or it goes on to its first call with every required field present.
C17_InvalidInputNoEffect ==
    [][begun' # begun
       => \/ /\ req' = req /\ store' = store /\ users' = users
             /\ Len(log') = Len(log) + 1
             /\ LET e == log'[Len(log')] IN
                /\ e.resp = InvalidOf(e.op)
                /\ e.snap = NoRec /\ e.mut = "none" /\ e.auth = <<>>
          \/ /\ log' = log /\ store' = store /\ users' = users
             /\ \E r \in BagToSet(req') :
                   /\ CopiesIn(r, req') > CopiesIn(r, req)
                   /\ r.key # NoPhone
                   /\ r.op \in {"verify", "reset"} => r.otp # Missing
                   /\ r.op = "reset" => r.newPassword # Missing]_vars

\* a request has been rejected for a missing field while a record is stored
C17_Witness ==
    /\ log # <<>>
    /\ Rejected(log[Len(log)])
    /\ \E k \in Keys : store[k].exists

\* C18: the checks run in the order existence, expiry, hash: a verify or
\* reset that read a record and then read the clock past its expiresAt is
\* answered Expired and has deleted the record, whether its code is right or
\* wrong, and has made no identity-store call; a handler past its checks on
\* the way to the delete or the identity store has read an unexpired record.
C18_ExpiryBeforeHash ==
    /\ \A i \in Pos :
          LET e == log[i] IN
          (e.op \in {"verify", "reset"} /\ e.snap.exists /\
           e.at > e.snap.expiresAt)
          => e.resp = Expired /\ e.mut = "delete" /\ e.auth = <<>>
    /\ \A q \in InFlight :
          /\ q.pc = "expire" => q.at > q.snap.expiresAt /\ q.auth = <<>>
          /\ q.pc \in {"consume", "lookup", "update", "create"}
             => q.snap.exists /\ q.at <= q.snap.expiresAt

\* a reset with a wrong code on an expired record is answered Expired
C18_Witness ==
    \E i \in Pairs :
        /\ log[i].op = "send" /\ log[i].mut = "put"
        /\ log[i + 1].op = "reset" /\ log[i + 1].key = log[i].key
        /\ log[i + 1].otp # log[i].otp
        /\ log[i + 1].resp = Expired /\ log[i + 1].mut = "delete"

C20_SameCore ==
    /\ twilio.store = store
    /\ twilio.users = users
    /\ IF req = EmptyBag THEN twilio.req = Fresh ELSE req = SetToBag({twilio.req})
    /\ twilio.resp = IF log = <<>> THEN NoResp ELSE log[1].resp

\* both servers have answered a reset "Password updated" and hold the account
C20_Witness ==
    /\ log # <<>> /\ log[1].op = "reset" /\ log[1].resp = ResetOk
    /\ twilio.resp = ResetOk
    /\ \E k \in Keys : users[k] \in Passwords /\ twilio.users[k] \in Passwords
====
